---- MODULE Spec2Model ----
(***************************************************************************)
(* A model of budget_tracker_app.py: the SQLite store (users and           *)
(* transactions tables), the schema manager, the account and transaction   *)
(* functions, the per-browser session state and the monthly aggregation.   *)
(***************************************************************************)
EXTENDS Integers, Sequences, FiniteSets, TLC

(* ------------------------------ bounds --------------------------------- *)
\* users.id never exceeds MaxUsers, transactions.id never exceeds MaxTx
MaxUsers == 2
MaxTx == 2
\* rows of a store that an earlier single-user version left behind
MaxLegacy == 1
\* rows of the store the aggregation is checked on
MaxRows == 3

Sessions == {"s1", "s2"}
Usernames == {"admin", "bob"}
Plaintexts == {"admin", "pw"}
Categories == {"food"}
Amounts == {500}
LegacyAmounts == {-200}
LegacyDates == {<<2023, 12, 31>>}
Dates == {<<2024, 1, 20>>, <<2024, 2, 1>>}
AggAmounts == {1000, -200, 500}
AggDates == {<<2023, 12, 31>>, <<2024, 1, 15>>, <<2024, 1, 20>>, <<2024, 2, 1>>}

(* ------------------------------ values --------------------------------- *)
\* SQL NULL in an INTEGER column; AUTOINCREMENT ids start at 1
NULL == 0
\* Python's None and a returned value
None == <<>>
Some(x) == <<x>>
\* "if user_id:" -- None and 0 are falsy
Truthy(opt) == opt # None /\ opt[1] # 0

(* ------------------------------- text ---------------------------------- *)
\* TEXT values that are compared or sliced are sequences of character codes
Dash == 45
Digit(n) == 48 + n
Pad2(n) == <<Digit(n \div 10), Digit(n % 10)>>
Pad4(n) == <<Digit(n \div 1000), Digit((n \div 100) % 10),
             Digit((n \div 10) % 10), Digit(n % 10)>>

\* datetime.date.isoformat(): "YYYY-MM-DD"
isoformat(d) == Pad4(d[1]) \o <<Dash>> \o Pad2(d[2]) \o <<Dash>> \o Pad2(d[3])

Num(s) == IF Len(s) = 2 THEN (s[1] - 48) * 10 + (s[2] - 48)
          ELSE (s[1] - 48) * 1000 + (s[2] - 48) * 100 + (s[3] - 48) * 10 + (s[4] - 48)

\* pd.to_datetime(text).dt.date of an ISO date text
to_datetime(s) == <<Num(SubSeq(s, 1, 4)), Num(SubSeq(s, 6, 7)), Num(SubSeq(s, 9, 10))>>

\* .dt.to_period("M").astype(str): "YYYY-MM"
to_period_M(d) == Pad4(d[1]) \o <<Dash>> \o Pad2(d[2])

\* SQLite's BINARY collation (memcmp, then length) on TEXT
RECURSIVE TextLess(_, _)
TextLess(a, b) ==
    IF b = <<>> THEN FALSE
    ELSE IF a = <<>> THEN TRUE
    ELSE IF a[1] # b[1] THEN a[1] < b[1]
    ELSE TextLess(Tail(a), Tail(b))

TextLeq(a, b) == a = b \/ TextLess(a, b)

\* hashlib.sha256(pwd.encode()).hexdigest()
hash_pwd(pwd) ==
    CASE pwd = "admin" -> "8c6976e5b5410415bde908bd4dee15dfb167a9c873fc4bb8a81f6f2ab448a918"
      [] pwd = "pw"    -> "30c952fab122c3f9759f02a6d95c3758b246b4fee239957b2d4fee46e26170c4"
      [] pwd = ""      -> "e3b0c44298fc1c149afbf4c8996fb92427ae41e4649b934ca495991b7852b855"

(* ------------------------------ the store ------------------------------ *)
\* budget.db before the program ever ran on it
EmptyStore ==
    [users_tbl |-> FALSE, users |-> {}, users_seq |-> 0,
     tx_tbl |-> FALSE, tx_user_id_col |-> FALSE, tx |-> {}, tx_seq |-> 0]

\* CREATE TABLE IF NOT EXISTS users(id ... AUTOINCREMENT, username TEXT UNIQUE, password TEXT)
sql_create_users(d) == IF d.users_tbl THEN d ELSE [d EXCEPT !.users_tbl = TRUE]

\* SELECT COUNT(*) FROM users
sql_count_users(d) == Cardinality(d.users)

\* the UNIQUE constraint on users.username
UniqueViolation(d, username) == \E u \in d.users : u.username = username

\* INSERT INTO users(username, password) VALUES(?,?) when no constraint fails
sql_insert_user(d, username, password) ==
    [d EXCEPT !.users = @ \cup {[id |-> d.users_seq + 1, username |-> username,
                                 password |-> password]},
              !.users_seq = @ + 1]

\* CREATE TABLE IF NOT EXISTS transactions(id ... AUTOINCREMENT, date, category, amount)
sql_create_transactions(d) == IF d.tx_tbl THEN d ELSE [d EXCEPT !.tx_tbl = TRUE]

\* "user_id" in [c[1] for c in PRAGMA table_info(transactions)]
sql_has_user_id(d) == d.tx_user_id_col

\* ALTER TABLE transactions ADD COLUMN user_id INTEGER: old rows read NULL
sql_add_user_id(d) == [d EXCEPT !.tx_user_id_col = TRUE]

\* variant: the column is added and the old rows are left NULL
sql_backfill_none(d) == d

\* UPDATE transactions SET user_id = 1 WHERE user_id IS NULL
sql_backfill(d) ==
    [d EXCEPT !.tx = {IF r.user_id = NULL THEN [r EXCEPT !.user_id = 1] ELSE r : r \in @}]

\* ensure_schema() run alone; raises IntegrityError when the seed insert fails
ensure_schema_raises(d) ==
    LET d1 == sql_create_users(d)
    IN  sql_count_users(d1) = 0 /\ UniqueViolation(d1, "admin")

\* variant: the backfill claims every row for the seed user on every run
ensure_schema_backfill_all(d) ==
    LET d1 == sql_create_users(d)
        d2 == IF sql_count_users(d1) = 0
              THEN sql_insert_user(d1, "admin", hash_pwd("admin"))
              ELSE d1
        d3 == sql_add_user_id(sql_create_transactions(d2))
    IN  [d3 EXCEPT !.tx = {[r EXCEPT !.user_id = 1] : r \in @}]

ensure_schema(d) ==
    LET d1 == sql_create_users(d)
        d2 == IF sql_count_users(d1) = 0
              THEN sql_insert_user(d1, "admin", hash_pwd("admin"))
              ELSE d1
        d3 == sql_create_transactions(d2)
        d4 == IF ~sql_has_user_id(d3) THEN sql_backfill(sql_add_user_id(d3)) ELSE d3
    IN  d4

\* every table and column the queries below name exists
SchemaReady(d) == d.users_tbl /\ d.tx_tbl /\ d.tx_user_id_col

(* --------------------------- account service --------------------------- *)
\* SELECT id, password FROM users WHERE username=?  (.fetchone())
UserRows(d, username) == {u \in d.users : u.username = username}

\* variant: the stored hash is not compared
authenticate_no_check(d, username, password) ==
    IF UserRows(d, username) # {}
    THEN Some((CHOOSE u \in UserRows(d, username) : TRUE).id)
    ELSE None

authenticate(d, username, password) ==
    IF \E u \in UserRows(d, username) : u.password = hash_pwd(password)
    THEN Some((CHOOSE u \in UserRows(d, username) : u.password = hash_pwd(password)).id)
    ELSE None

get_username(d, user_id) ==
    IF \E u \in d.users : u.id = user_id
    THEN (CHOOSE u \in d.users : u.id = user_id).username
    ELSE "unknown"

\* variant: UPDATE users SET password=? without the WHERE clause
change_password_all(d, user_id, new_pwd) ==
    [d EXCEPT !.users = {[u EXCEPT !.password = hash_pwd(new_pwd)] : u \in @}]

\* UPDATE users SET password=? WHERE id=?
change_password(d, user_id, new_pwd) ==
    [d EXCEPT !.users = {IF u.id = user_id THEN [u EXCEPT !.password = hash_pwd(new_pwd)]
                         ELSE u : u \in @}]

\* create_user returns False on sqlite3.IntegrityError, True after the commit
create_user_ret(d, username, password) == ~UniqueViolation(d, username)

\* variant: INSERT OR REPLACE semantics on a duplicate username
create_user_replace(d, username, password) ==
    IF UniqueViolation(d, username)
    THEN [d EXCEPT !.users = {IF u.username = username
                              THEN [u EXCEPT !.password = hash_pwd(password)]
                              ELSE u : u \in @}]
    ELSE sql_insert_user(d, username, hash_pwd(password))

create_user(d, username, password) ==
    IF UniqueViolation(d, username) THEN d
    ELSE sql_insert_user(d, username, hash_pwd(password))

(* ------------------------- transaction service ------------------------- *)
\* variant: the INSERT of the version without a user_id column
add_tx_no_owner(d, user_id, date, category, amount) ==
    [d EXCEPT !.tx = @ \cup {[id |-> d.tx_seq + 1, date |-> isoformat(date),
                              category |-> category, amount |-> amount,
                              user_id |-> NULL]},
              !.tx_seq = @ + 1]

\* INSERT INTO transactions(date, category, amount, user_id) VALUES(?,?,?,?)
add_tx(d, user_id, date, category, amount) ==
    [d EXCEPT !.tx = @ \cup {[id |-> d.tx_seq + 1, date |-> isoformat(date),
                              category |-> category, amount |-> amount,
                              user_id |-> user_id]},
              !.tx_seq = @ + 1]

\* variant: DELETE FROM transactions WHERE id=?
delete_tx_any_owner(d, user_id, tx_id) ==
    [d EXCEPT !.tx = {r \in @ : r.id # tx_id}]

\* DELETE FROM transactions WHERE id=? AND user_id=?
delete_tx(d, user_id, tx_id) ==
    [d EXCEPT !.tx = {r \in @ : ~(r.id = tx_id /\ r.user_id = user_id)}]

\* SELECT * FROM transactions WHERE user_id=?
SelectTx(d, user_id) == {r \in d.tx : r.user_id = user_id}

\* variant: no ORDER BY, the rows come in rowid order
OrderByDate_unordered(S) ==
    {q \in [1..Cardinality(S) -> S] :
        \A i \in 1..(Cardinality(S) - 1) : q[i].id < q[i + 1].id}

\* ORDER BY date: every order of the rows that ascends by the date TEXT
\* (rows with equal dates come in an order SQL leaves open)
OrderByDate(S) ==
    {q \in [1..Cardinality(S) -> S] :
        /\ \A i, j \in 1..Cardinality(S) : i # j => q[i] # q[j]
        /\ \A i \in 1..(Cardinality(S) - 1) : TextLeq(q[i].date, q[i + 1].date)}

\* df["date"] = ...; df["Month"] = ...
WithMonth(r) ==
    [id |-> r.id, date |-> isoformat(to_datetime(r.date)), category |-> r.category,
     amount |-> r.amount, user_id |-> r.user_id,
     Month |-> to_period_M(to_datetime(isoformat(to_datetime(r.date))))]

\* fetch_tx(): the data frames the query can return for the session's user
fetch_tx(d, user_id) ==
    {IF q = <<>> THEN q ELSE [i \in 1..Len(q) |-> WithMonth(q[i])] :
        q \in OrderByDate(SelectTx(d, user_id))}

(* ------------------------------ aggregation ---------------------------- *)
RECURSIVE SumAmounts(_, _, _)
SumAmounts(df, key, i) ==
    IF i > Len(df) THEN 0
    ELSE (IF df[i].Month = key THEN df[i].amount ELSE 0) + SumAmounts(df, key, i + 1)

\* the group keys in ascending order (groupby sorts its keys)
RECURSIVE SortKeys(_)
SortKeys(K) ==
    IF K = {} THEN <<>>
    ELSE LET k == CHOOSE x \in K : \A y \in K : TextLeq(x, y)
         IN  <<k>> \o SortKeys(K \ {k})

\* df.groupby("Month")["amount"].sum().reset_index()
monthly_totals(df) ==
    LET keys == SortKeys({df[i].Month : i \in 1..Len(df)})
    IN  [k \in 1..Len(keys) |-> [Month |-> keys[k], amount |-> SumAmounts(df, keys[k], 1)]]

\* variant: month_totals.iloc[0]
current_month_first(month_totals) == month_totals[1]

\* month_totals.iloc[-1]
current_month(month_totals) == month_totals[Len(month_totals)]

(* ------------------------------- state --------------------------------- *)
VARIABLES
    db,          \* the committed contents of budget.db
    db0,         \* budget.db as the first run of the program found it
    session,     \* st.session_state of every browser session
    last,        \* the last call made: its name, its arguments, what it returned
    firstPwd,    \* per username: the plaintext a successful create_user stored
    pc,          \* concurrent start-up: the statement each ensure_schema() is at
    cnt,         \* concurrent start-up: what SELECT COUNT(*) returned
    cols,        \* concurrent start-up: "user_id" in cols
    wdb,         \* concurrent start-up: the store as the open write transaction sees it
    writer       \* concurrent start-up: the connection holding the write lock

vars == <<db, db0, session, last, firstPwd, pc, cnt, cols, wdb, writer>>
startup == <<pc, cnt, cols, wdb, writer>>
history == <<db0, firstPwd>>

UserIds == 1..MaxUsers
TxIds == 1..MaxTx

\* no "auth", "user_id" or "username" key in st.session_state
NoSession == [auth |-> FALSE, user_id |-> NULL, username |-> ""]

\* a transactions table written by a version of the program without user_id
LegacyStore(rows) ==
    [users_tbl |-> FALSE, users |-> {}, users_seq |-> 0,
     tx_tbl |-> TRUE, tx_user_id_col |-> FALSE,
     tx |-> {[id |-> i, date |-> isoformat(rows[i][1]), category |-> rows[i][2],
              amount |-> rows[i][3], user_id |-> NULL] : i \in DOMAIN rows},
     tx_seq |-> Len(rows)]

InitStores ==
    {EmptyStore} \cup
    {LegacyStore(rows) :
        rows \in UNION {[1..k -> LegacyDates \X Categories \X LegacyAmounts] : k \in 0..MaxLegacy}}

InitCommon ==
    /\ db0 = db
    /\ session = [s \in Sessions |-> NoSession]
    /\ last = [op |-> "none"]
    /\ firstPwd = [n \in Usernames |-> None]
    /\ cnt = [s \in Sessions |-> 0]
    /\ cols = [s \in Sessions |-> FALSE]
    /\ wdb = EmptyStore
    /\ writer = "none"

Init ==
    /\ db \in InitStores
    /\ pc = [s \in Sessions |-> "idle"]
    /\ InitCommon

(* ------------------------------ operations ----------------------------- *)
\* main(): ensure_schema() at the top of every script run
EnsureSchema ==
    /\ ~ensure_schema_raises(db)
    /\ db' = ensure_schema(db)
    /\ last' = [op |-> "ensure_schema", first |-> ~SchemaReady(db)]
    /\ UNCHANGED <<session, history, startup>>

\* login_ui(): the submitted form
Login(s, username, password) ==
    /\ SchemaReady(db)
    /\ ~session[s].auth
    /\ LET user_id == authenticate(db, username, password)
       IN  /\ session' = IF Truthy(user_id)
                         THEN [session EXCEPT ![s] = [auth |-> TRUE, user_id |-> user_id[1],
                                                      username |-> username]]
                         ELSE session
           /\ last' = [op |-> "authenticate", username |-> username,
                       password |-> password, ret |-> user_id]
    /\ UNCHANGED <<db, history, startup>>

\* account_settings_ui(): the Logout button
Logout(s) ==
    /\ session[s].auth
    /\ session' = [session EXCEPT ![s] = NoSession]
    /\ last' = [op |-> "logout"]
    /\ UNCHANGED <<db, history, startup>>

\* change_password(user_id, new_pwd)
ChangePassword(user_id, new_pwd) ==
    /\ SchemaReady(db)
    /\ db' = change_password(db, user_id, new_pwd)
    /\ last' = [op |-> "change_password", user_id |-> user_id, password |-> new_pwd]
    /\ UNCHANGED <<session, history, startup>>

\* create_user(username, password)
CreateUser(username, password) ==
    /\ SchemaReady(db)
    /\ UniqueViolation(db, username) \/ db.users_seq < MaxUsers
    /\ db' = create_user(db, username, password)
    /\ last' = [op |-> "create_user", username |-> username,
                ret |-> create_user_ret(db, username, password)]
    /\ firstPwd' = IF create_user_ret(db, username, password)
                   THEN [firstPwd EXCEPT ![username] = Some(password)]
                   ELSE firstPwd
    /\ UNCHANGED <<session, db0, startup>>

\* budget_ui(): the Add button, add_tx with the session's user_id
AddTx(s, date, category, amount) ==
    /\ SchemaReady(db)
    /\ session[s].auth
    /\ db.tx_seq < MaxTx
    /\ db' = add_tx(db, session[s].user_id, date, category, amount)
    /\ last' = [op |-> "add_tx"]
    /\ UNCHANGED <<session, history, startup>>

\* delete_tx(tx_id) with the session's user_id
DeleteTx(s, tx_id) ==
    /\ SchemaReady(db)
    /\ session[s].auth
    /\ db' = delete_tx(db, session[s].user_id, tx_id)
    /\ last' = [op |-> "delete_tx", user_id |-> session[s].user_id, tx_id |-> tx_id]
    /\ UNCHANGED <<session, history, startup>>

\* budget_ui(): fetch_tx(), then the month totals and the current month's metric
BudgetUi(s) ==
    /\ SchemaReady(db)
    /\ session[s].auth
    /\ \E df \in fetch_tx(db, session[s].user_id) :
          last' = IF df = <<>>
                  THEN [op |-> "budget_ui", user_id |-> session[s].user_id, df |-> df]
                  ELSE [op |-> "budget_ui", user_id |-> session[s].user_id, df |-> df,
                        month_totals |-> monthly_totals(df),
                        current_month |-> current_month(monthly_totals(df))]
    /\ UNCHANGED <<db, session, history, startup>>

Next ==
    \/ EnsureSchema
    \/ \E s \in Sessions, n \in Usernames, p \in Plaintexts : Login(s, n, p)
    \/ \E s \in Sessions : Logout(s)
    \/ \E u \in UserIds, p \in Plaintexts : ChangePassword(u, p)
    \/ \E n \in Usernames, p \in Plaintexts : CreateUser(n, p)
    \/ \E s \in Sessions, d \in Dates, c \in Categories, a \in Amounts : AddTx(s, d, c, a)
    \/ \E s \in Sessions, t \in TxIds : DeleteTx(s, t)
    \/ \E s \in Sessions : BudgetUi(s)

Spec == Init /\ [][Next]_vars

(* ------------------- aggregation on a user's rows ---------------------- *)
\* the store after ensure_schema(), the admin's login and one Add per row
RECURSIVE AddAll(_, _, _)
AddAll(d, rows, i) ==
    IF i > Len(rows) THEN d
    ELSE AddAll(add_tx(d, 1, rows[i][1], rows[i][2], rows[i][3]), rows, i + 1)

AggStores ==
    {AddAll(ensure_schema(EmptyStore), rows, 1) :
        rows \in UNION {[1..k -> AggDates \X Categories \X AggAmounts] : k \in 0..MaxRows}}

AggSession == CHOOSE s \in Sessions : TRUE

InitAggregation ==
    /\ db \in AggStores
    /\ db0 = db
    /\ session = [s \in Sessions |->
                    IF s = AggSession
                    THEN [auth |-> TRUE, user_id |-> 1, username |-> "admin"]
                    ELSE NoSession]
    /\ last = [op |-> "none"]
    /\ firstPwd = [n \in Usernames |-> None]
    /\ pc = [s \in Sessions |-> "idle"]
    /\ cnt = [s \in Sessions |-> 0]
    /\ cols = [s \in Sessions |-> FALSE]
    /\ wdb = EmptyStore
    /\ writer = "none"

NextAggregation == \E s \in Sessions : BudgetUi(s)

SpecAggregation == InitAggregation /\ [][NextAggregation]_vars

(* ----------------- concurrent runs of ensure_schema() ------------------ *)
\* Each session's script run executes ensure_schema() on its own connection,
\* one statement at a time.  The sqlite3 module opens a transaction before an
\* INSERT or UPDATE and leaves CREATE and ALTER in autocommit mode unless a
\* transaction is already open; a statement that writes waits for the write
\* lock; a connection without an open transaction reads the committed store.
View(s) == IF writer = s THEN wdb ELSE db

\* a statement that writes, run by s: inside s's transaction, or autocommitted
CanWrite(s) == writer = s \/ writer = "none"

Written(s, d) ==
    /\ CanWrite(s)
    /\ IF writer = s THEN wdb' = d /\ db' = db ELSE db' = d /\ wdb' = wdb
    /\ writer' = writer

\* a statement before which the module begins a transaction
WrittenInTransaction(s, d) ==
    /\ CanWrite(s)
    /\ wdb' = d
    /\ writer' = s
    /\ db' = db

Goto(s, label) == pc' = [pc EXCEPT ![s] = label]

\* lines 22-28
CCreateUsers(s) ==
    /\ pc[s] = "start"
    /\ IF View(s).users_tbl
       THEN UNCHANGED <<db, wdb, writer>>
       ELSE Written(s, sql_create_users(View(s)))
    /\ Goto(s, "count")
    /\ UNCHANGED <<cnt, cols, session, last, history>>

\* line 29
CCount(s) ==
    /\ pc[s] = "count"
    /\ cnt' = [cnt EXCEPT ![s] = sql_count_users(View(s))]
    /\ Goto(s, "seed")
    /\ UNCHANGED <<db, wdb, writer, cols, session, last, history>>

\* lines 29-33: the INSERT runs once the write lock is free; a UNIQUE failure
\* raises sqlite3.IntegrityError out of ensure_schema(), and the connection,
\* dropped with the frame, rolls back
CSeed(s) ==
    /\ pc[s] = "seed"
    /\ IF cnt[s] = 0
       THEN /\ CanWrite(s)
            /\ IF UniqueViolation(View(s), "admin")
               THEN /\ Goto(s, "error")
                    /\ writer' = IF writer = s THEN "none" ELSE writer
                    /\ UNCHANGED <<db, wdb>>
               ELSE /\ WrittenInTransaction(s, sql_insert_user(View(s), "admin",
                                                              hash_pwd("admin")))
                    /\ Goto(s, "create_tx")
       ELSE /\ Goto(s, "create_tx")
            /\ UNCHANGED <<db, wdb, writer>>
    /\ UNCHANGED <<cnt, cols, session, last, history>>

\* lines 35-42
CCreateTransactions(s) ==
    /\ pc[s] = "create_tx"
    /\ IF View(s).tx_tbl
       THEN UNCHANGED <<db, wdb, writer>>
       ELSE Written(s, sql_create_transactions(View(s)))
    /\ Goto(s, "pragma")
    /\ UNCHANGED <<cnt, cols, session, last, history>>

\* line 44
CPragma(s) ==
    /\ pc[s] = "pragma"
    /\ cols' = [cols EXCEPT ![s] = sql_has_user_id(View(s))]
    /\ Goto(s, "alter")
    /\ UNCHANGED <<db, wdb, writer, cnt, session, last, history>>

\* lines 45-46: ADD COLUMN of a column that exists by now raises OperationalError
CAlter(s) ==
    /\ pc[s] = "alter"
    /\ IF cols[s]
       THEN /\ Goto(s, "commit")
            /\ UNCHANGED <<db, wdb, writer>>
       ELSE /\ CanWrite(s)
            /\ IF sql_has_user_id(View(s))
               THEN /\ Goto(s, "error")
                    /\ writer' = IF writer = s THEN "none" ELSE writer
                    /\ UNCHANGED <<db, wdb>>
               ELSE /\ Written(s, sql_add_user_id(View(s)))
                    /\ Goto(s, "update")
    /\ UNCHANGED <<cnt, cols, session, last, history>>

\* line 47
CUpdate(s) ==
    /\ pc[s] = "update"
    /\ WrittenInTransaction(s, sql_backfill(View(s)))
    /\ Goto(s, "commit")
    /\ UNCHANGED <<cnt, cols, session, last, history>>

\* line 49
CCommit(s) ==
    /\ pc[s] = "commit"
    /\ IF writer = s
       THEN db' = wdb /\ writer' = "none" /\ wdb' = wdb
       ELSE UNCHANGED <<db, wdb, writer>>
    /\ Goto(s, "done")
    /\ UNCHANGED <<cnt, cols, session, last, history>>

InitStartup ==
    /\ db \in InitStores
    /\ pc = [s \in Sessions |-> "start"]
    /\ InitCommon

NextStartup ==
    \E s \in Sessions :
        \/ CCreateUsers(s)
        \/ CCount(s)
        \/ CSeed(s)
        \/ CCreateTransactions(s)
        \/ CPragma(s)
        \/ CAlter(s)
        \/ CUpdate(s)
        \/ CCommit(s)

SpecStartup == InitStartup /\ [][NextStartup]_vars

(* ------------------------------ properties ----------------------------- *)
\* chronological order of calendar dates <<year, month, day>>
DateLeq(a, b) ==
    \/ a[1] < b[1]
    \/ a[1] = b[1] /\ a[2] < b[2]
    \/ a[1] = b[1] /\ a[2] = b[2] /\ a[3] <= b[3]

\* rows of d whose id no longer names a row of e
Removed(d, e) == {r \in d.tx : ~\E r2 \in e.tx : r2.id = r.id}

UsernamesUnique(d) ==
    \A u, v \in d.users : u.username = v.username => u = v

RECURSIVE SumOf(_, _)
SumOf(df, I) ==
    IF I = {} THEN 0
    ELSE LET i == CHOOSE x \in I : TRUE IN df[i].amount + SumOf(df, I \ {i})

\* C1: a delete_tx call by user A naming a row that A does not own (or no row)
\* leaves the whole store as it was, and a row disappears only in a delete_tx
\* call whose tx_id and session user_id both match the row.
DeleteOnlyOwnRow ==
    [][/\ (last'.op = "delete_tx"
           /\ ~\E r \in db.tx : r.id = last'.tx_id /\ r.user_id = last'.user_id)
          => db' = db
       /\ \A r \in Removed(db, db') :
             /\ last'.op = "delete_tx"
             /\ r.id = last'.tx_id
             /\ r.user_id = last'.user_id]_vars

\* C1 witness: user A asked to delete a row of user B, and the row is stored
DeleteOfForeignRowSeen ==
    /\ last.op = "delete_tx"
    /\ \E r \in db.tx : r.id = last.tx_id /\ r.user_id # last.user_id

\* C2 as stated: after a create_user that fails on a name an earlier
\* create_user(n, p1) stored, the hash of n is hash(p1), whatever ran in between;
\* and no two users share a username.
DuplicateKeepsFirstHash ==
    /\ UsernamesUnique(db)
    /\ (last.op = "create_user" /\ ~last.ret /\ firstPwd[last.username] # None)
       => \A u \in UserRows(db, last.username) :
             u.password = hash_pwd(firstPwd[last.username][1])

\* C2 amended: create_user on a stored username returns False and leaves the
\* users table (that user's hash included) exactly as the call found it;
\* create_user on a new username returns True, adds exactly one user and stores
\* the hash of its plaintext; no two users ever share a username.
DuplicateUserRejected ==
    /\ []UsernamesUnique(db)
    /\ [][last'.op = "create_user" =>
            IF UserRows(db, last'.username) # {}
            THEN /\ ~last'.ret
                 /\ db' = db
            ELSE /\ last'.ret
                 /\ Cardinality(db'.users) = Cardinality(db.users) + 1
                 /\ db.users \subseteq db'.users
                 /\ \E u \in UserRows(db', last'.username) :
                       u.password = hash_pwd(firstPwd'[last'.username][1])]_vars

\* C2 witness: a second create_user on a name that create_user stored before
SecondCreateSeen ==
    /\ last.op = "create_user"
    /\ ~last.ret
    /\ firstPwd[last.username] # None
    /\ Cardinality(db.users) = 2

\* what the claim C3 expects of a returned value r for (n, p) in store d
AuthExpected(d, n, p, r) ==
    /\ r # None <=> \E u \in d.users : u.username = n /\ u.password = hash_pwd(p)
    /\ r # None => /\ \E u \in d.users : u.id = r[1]
                   /\ \A u \in d.users : u.id = r[1] => u.username = n

\* C3: authenticate(n, p) returns the id of the user named n exactly when that
\* user exists and its stored hash is hash_pwd(p); otherwise it returns None;
\* it never returns the id of another user.
AuthenticateIffHashMatches ==
    /\ \A n \in Usernames, p \in Plaintexts : AuthExpected(db, n, p, authenticate(db, n, p))
    /\ last.op = "authenticate" => AuthExpected(db, last.username, last.password, last.ret)
    /\ \A s \in Sessions : session[s].auth =>
          \E u \in db.users : u.id = session[s].user_id /\ u.username = session[s].username

\* C3 witness: a login of a created user succeeded and a session holds its id
LoginOfSecondUserSeen ==
    /\ last.op = "authenticate"
    /\ last.ret = Some(2)
    /\ \E s \in Sessions : session[s].auth /\ session[s].user_id = 2

\* C4: once ensure_schema() has run, running it again raises nothing and leaves
\* the users table and every transaction row as they are, with exactly one
\* user named "admin".
EnsureSchemaIdempotent ==
    SchemaReady(db) =>
        /\ ~ensure_schema_raises(db)
        /\ ensure_schema(db) = db
        /\ Cardinality(UserRows(db, "admin")) = 1

\* C4 witness: ensure_schema() ran again on a store whose admin password was
\* changed and which holds a row of another user
RerunOnChangedStoreSeen ==
    /\ last.op = "ensure_schema"
    /\ ~last.first
    /\ \E u \in UserRows(db, "admin") : u.password # hash_pwd("admin")
    /\ \E r \in db.tx : r.user_id = 2

\* C5: right after ensure_schema() upgraded a transactions table without
\* user_id, every old row is stored with user_id = 1 and its old date, category
\* and amount, user 1 exists, and fetch_tx for user 1 returns all those rows.
MigrationBackfillsSeedUser ==
    (last.op = "ensure_schema" /\ last.first /\ db0.tx_tbl) =>
        /\ \A r \in db0.tx : [r EXCEPT !.user_id = 1] \in db.tx
        /\ \E u \in db.users : u.id = 1
        /\ fetch_tx(db, 1) # {}
        /\ \A df \in fetch_tx(db, 1) :
              \A r \in db0.tx :
                 \E i \in DOMAIN df :
                    /\ df[i].id = r.id
                    /\ df[i].date = r.date
                    /\ df[i].category = r.category
                    /\ df[i].amount = r.amount

\* C5 witness: the first run found a transactions table with a row in it
UpgradeOfOldRowsSeen ==
    /\ last.op = "ensure_schema"
    /\ last.first
    /\ db0.tx # {}
    /\ \E r \in db.tx : r.user_id = 1

\* C6: what fetch_tx returned for user u holds each stored row of u once, no
\* row of another user, in ascending calendar-date order; with no rows of u it
\* is the empty sequence.
FetchScopedAndSorted ==
    last.op = "budget_ui" =>
        LET df == last.df
            own == {r \in db.tx : r.user_id = last.user_id}
        IN  /\ Len(df) = Cardinality(own)
            /\ \A r \in own : \E i \in DOMAIN df :
                  /\ df[i].id = r.id
                  /\ df[i].user_id = r.user_id
                  /\ df[i].amount = r.amount
                  /\ df[i].category = r.category
                  /\ to_datetime(df[i].date) = to_datetime(r.date)
            /\ \A i \in DOMAIN df : df[i].user_id = last.user_id
            /\ \A i, j \in DOMAIN df :
                  i < j => DateLeq(to_datetime(df[i].date), to_datetime(df[j].date))
            /\ own = {} => df = <<>>

\* C6 witness: two rows of a user came back with the later-inserted one first
FetchReorderedSeen ==
    /\ last.op = "budget_ui"
    /\ Len(last.df) = 2
    /\ last.df[1].id > last.df[2].id
    /\ last.df[1].date # last.df[2].date

\* the first seven characters of a date text, as a month number
MonthKey(date) == SubSeq(date, 1, 7)
MonthNumber(key) == Num(SubSeq(key, 1, 4)) * 12 + Num(SubSeq(key, 6, 7))

\* C7: for a non-empty date-sorted frame, monthly_totals has one bucket per
\* month present, each month once, in ascending month order, each total the sum
\* of the amounts of the rows dated in that month; the current month's value is
\* the total of the chronologically last bucket.
MonthlyTotalsCorrect ==
    (last.op = "budget_ui" /\ last.df # <<>>) =>
        LET df == last.df
            mt == last.month_totals
        IN  /\ {mt[k].Month : k \in DOMAIN mt} = {MonthKey(df[i].date) : i \in DOMAIN df}
            /\ \A j, k \in DOMAIN mt :
                  j < k => MonthNumber(mt[j].Month) < MonthNumber(mt[k].Month)
            /\ \A k \in DOMAIN mt :
                  mt[k].amount =
                     SumOf(df, {i \in DOMAIN df : MonthKey(df[i].date) = mt[k].Month})
            /\ \E k \in DOMAIN mt :
                  /\ \A j \in DOMAIN mt : MonthNumber(mt[j].Month) <= MonthNumber(mt[k].Month)
                  /\ last.current_month = mt[k]

\* C7 witness: 2024-01-15 +1000, 2024-01-20 -200, 2024-02-01 +500 rendered
\* as [(2024-01, 800), (2024-02, 500)] and 500
SpecExampleSeen ==
    /\ last.op = "budget_ui"
    /\ Len(last.df) = 3
    /\ [i \in 1..3 |-> <<last.df[i].date, last.df[i].amount>>] =
          << <<isoformat(<<2024, 1, 15>>), 1000>>,
             <<isoformat(<<2024, 1, 20>>), -200>>,
             <<isoformat(<<2024, 2, 1>>), 500>> >>
    /\ last.month_totals =
          << [Month |-> to_period_M(<<2024, 1>>), amount |-> 800],
             [Month |-> to_period_M(<<2024, 2>>), amount |-> 500] >>
    /\ last.current_month.amount = 500

\* C8: change_password(id, new) replaces the hash of the user with that id by
\* hash_pwd(new) and changes nothing else in the store or the sessions; with no
\* such user the store is unchanged.  Afterwards authenticate with the user's
\* name and new returns id, and with a plaintext of another digest returns None.
ChangePasswordOnlyThatUser ==
    [][last'.op = "change_password" =>
         LET id == last'.user_id
             new == last'.password
         IN  /\ [db' EXCEPT !.users = {}] = [db EXCEPT !.users = {}]
             /\ session' = session
             /\ Cardinality(db'.users) = Cardinality(db.users)
             /\ \A u \in db.users :
                   IF u.id = id
                   THEN [u EXCEPT !.password = hash_pwd(new)] \in db'.users
                   ELSE u \in db'.users
             /\ (~\E u \in db.users : u.id = id) => db' = db
             /\ \A u \in db.users : u.id = id =>
                   /\ get_username(db', id) = u.username
                   /\ authenticate(db', u.username, new) = Some(id)
                   /\ \A old \in Plaintexts :
                         hash_pwd(old) # hash_pwd(new)
                            => authenticate(db', u.username, old) = None]_vars

\* C8 witness: the second user's password was changed while the admin keeps
\* another hash and a transaction is stored
PasswordOfSecondUserChangedSeen ==
    /\ last.op = "change_password"
    /\ last.user_id = 2
    /\ \E u \in db.users : u.id = 2 /\ u.password = hash_pwd(last.password)
    /\ \E u \in db.users : u.id = 1 /\ u.password # hash_pwd(last.password)
    /\ db.tx # {}

\* C9: once ensure_schema() has run, the user_id of every stored transaction
\* is the id of exactly one stored user, and so is the user_id of every
\* logged-in session.
EveryTransactionOwned ==
    SchemaReady(db) =>
        /\ \A r \in db.tx : Cardinality({u \in db.users : u.id = r.user_id}) = 1
        /\ \A s \in Sessions :
              session[s].auth =>
                 Cardinality({u \in db.users : u.id = session[s].user_id}) = 1

\* C9 witness: rows of the seed user and of a created user are stored
RowsOfTwoUsersSeen ==
    /\ \E r \in db.tx : r.user_id = 1
    /\ \E r \in db.tx : r.user_id = 2
    /\ \E s \in Sessions : ~session[s].auth

\* C10: on an initially empty store no concurrent ensure_schema() raises, and
\* when all have finished exactly one user named "admin" is stored.
ConcurrentStartupSafe ==
    db0 = EmptyStore =>
        /\ \A s \in Sessions : pc[s] # "error"
        /\ (\A s \in Sessions : pc[s] \in {"done", "error"})
              => Cardinality(UserRows(db, "admin")) = 1

====
